---- MODULE Spec2Model ----
(***************************************************************************)
(* A model of calc.go: the chunked, parallel aggregation of                *)
(* "station;temperature\n" records (process, processChunk, parseRow) and   *)
(* the two decimal parsers (parseNumber, parseNumberLE).                   *)
(*                                                                         *)
(* Bytes are the integers 0..255, the buffer is a sequence of bytes and a  *)
(* Go offset p is element p + 1 of that sequence.  A uint64 is a sequence  *)
(* of 8 bytes, least significant first, so that 64-bit products and        *)
(* shifts keep their width.                                                *)
(***************************************************************************)
EXTENDS Integers, Sequences, FiniteSets, TLC

\* ------------------------------------------------------------------ bounds
\* the largest number of records of a generated buffer
MaxRecords == 3
\* the largest worker count (runtime.NumCPU()) of the chunked runs
MaxWorkers == 3
\* the largest worker count of the single-record runs
MaxCPU == 9

\* ------------------------------------------------------- program constants
\* an overlap one byte short
chunkOverlapShort == 4 - 1
chunkOverlap == 4
nBuckets == 4096
NL == 10
SEMI == 59
MINUS == 45
DOT == 46
ZERO == 48

\* 14695981039346656037 = 0xcbf29ce484222325, least significant byte first
fnv1aOffset64 == <<37, 35, 34, 132, 228, 156, 242, 203>>
\* 1099511628211 = 0x00000100000001b3
fnv1aPrime64 == <<179, 1, 0, 0, 0, 1, 0, 0>>
\* 0x0f_00_0f_0f
bcdMask == <<15, 15, 0, 15, 0, 0, 0, 0>>
\* 0x0a640001: the weights 100 and 10 swapped
magicMulSwapped == <<1, 0, 100, 10, 0, 0, 0, 0>>
\* 0x640a0001
magicMul == <<1, 0, 10, 100, 0, 0, 0, 0>>

\* ------------------------------------------------------ 64-bit arithmetic
Bit(b, k) == (b \div (2 ^ k)) % 2

AndByte(a, b) ==
  LET t(k) == Bit(a, k) * Bit(b, k) * (2 ^ k)
  IN  t(0) + t(1) + t(2) + t(3) + t(4) + t(5) + t(6) + t(7)

XorByte(a, b) ==
  LET t(k) == ((Bit(a, k) + Bit(b, k)) % 2) * (2 ^ k)
  IN  t(0) + t(1) + t(2) + t(3) + t(4) + t(5) + t(6) + t(7)

AndWord(w, m) == [k \in 1..8 |-> AndByte(w[k], m[k])]

\* w >> (8 * n)
ShrBytes(w, n) == [k \in 1..8 |-> IF k + n <= 8 THEN w[k + n] ELSE 0]

\* w << (8 * n), the bytes shifted past bit 63 dropped
ShlBytes(w, n) == [k \in 1..8 |-> IF k - n >= 1 THEN w[k - n] ELSE 0]

RECURSIVE MulColumn(_, _, _, _)
\* the sum of the byte products a[i] * b[k + 1 - i], i in 1..j
MulColumn(a, b, k, j) ==
  IF j = 0 THEN 0 ELSE a[j] * b[k + 1 - j] + MulColumn(a, b, k, j - 1)

RECURSIVE MulRaw(_, _, _)
\* column k of the schoolbook product with the carry of the lower columns
MulRaw(a, b, k) ==
  MulColumn(a, b, k, k) + (IF k = 1 THEN 0 ELSE MulRaw(a, b, k - 1) \div 256)

\* a * b modulo 2^64
Mul64(a, b) == [k \in 1..8 |-> MulRaw(a, b, k) % 256]

\* ------------------------------------------------------------ the parsers
\* bits.TrailingZeros64(^absolute & 0x10_10_00)
TrailingZerosDot(absolute) ==
  IF Bit(absolute[2], 4) = 0 THEN 12
  ELSE IF Bit(absolute[3], 4) = 0 THEN 20
  ELSE 64

parseNumberLE(x) ==
  LET negative   == 1 - Bit(x[1], 4)
      absolute   == ShrBytes(x, negative)
      dotPos     == TrailingZerosDot(absolute)
      normShift  == 8 * (((20 - dotPos) \div 8) % 2)
      normalized == AndWord(ShlBytes(absolute, normShift \div 8), bcdMask)
      product    == ShrBytes(Mul64(normalized, magicMul), 3)
      value      == product[1] + 256 * (product[2] % 4)
      signed     == IF negative = 1 THEN 0 - value ELSE value
      size       == negative + (4 - (normShift \div 8))
  IN  <<signed, size>>

\* the copy of parseNumberLE inlined in processChunk
inlineParseNumberLE(x) ==
  LET negative   == 1 - Bit(x[1], 4)
      absolute   == ShrBytes(x, negative)
      dotPos     == TrailingZerosDot(absolute)
      normShift  == 8 * (((20 - dotPos) \div 8) % 2)
      normalized == AndWord(ShlBytes(absolute, normShift \div 8), bcdMask)
      product    == ShrBytes(Mul64(normalized, magicMul), 3)
      value      == product[1] + 256 * (product[2] % 4)
      temp       == IF negative = 1 THEN 0 - value ELSE value
      size       == negative + (4 - (normShift \div 8))
  IN  <<temp, size>>

\* parseNumber without its sign
parseNumberUnsigned(s) ==
  LET negative == s[1] = MINUS
      d        == IF negative THEN Tail(s) ELSE s
  IN  CASE Len(d) = 3 -> d[1] * 10 + d[3] - ZERO * (10 + 1)
        [] Len(d) = 4 -> d[1] * 100 + d[2] * 10 + d[4] - ZERO * (100 + 10 + 1)
        [] OTHER -> 0

\* parseNumber of a non-empty byte slice (an empty one makes data[0] panic)
parseNumber(s) ==
  LET negative == s[1] = MINUS
      d        == IF negative THEN Tail(s) ELSE s
      result   == CASE Len(d) = 3 -> d[1] * 10 + d[3] - ZERO * (10 + 1)
                    [] Len(d) = 4 -> d[1] * 100 + d[2] * 10 + d[4]
                                     - ZERO * (100 + 10 + 1)
                    [] OTHER -> 0
  IN  IF negative THEN 0 - result ELSE result

\* ------------------------------------------------------------- the state
VARIABLES
  data,           \* the input buffer handed to process
  nChunks,        \* runtime.NumCPU()
  rows,           \* the records the buffer was written from (not read by the code)
  pc,             \* where the main flow of process is
  lastRowOffset,  \* process: lastRowOffset
  offset,         \* process: offset of the partitioning loop
  chunks,         \* process: chunks, the chunk boundaries
  start,          \* process: start of the launch loop
  next,           \* process: i of the launch loop
  wg,             \* the WaitGroup counter
  results,        \* process: results, slot -> map (a nil map reads as empty)
  writers,        \* slot -> the tasks that assigned the slot, in order
  workers,        \* i -> the goroutine running processChunk on chunk i
  measurements,   \* process: measurements, the merge accumulator
  mergeIdx,       \* index of the merge loop over results
  visited,        \* the stations of results[mergeIdx] already folded
  ret,            \* the map process returned (once pc = "done")
  num             \* the runs of the pure functions: a number text, its window and
                  \* the parsers' results, or a sum, a count and the roundings

vars == <<data, nChunks, rows, pc, lastRowOffset, offset, chunks, start, next,
          wg, results, writers, workers, measurements, mergeIdx, visited, ret,
          num>>

EmptyMap == <<>>

\* ------------------------------------------------------- bytes and slices
\* data[p]
At(p) == data[p + 1]

\* data[lo:hi]
Slice(lo, hi) == [k \in 1..(hi - lo) |-> data[lo + k]]

SetMax(S) == CHOOSE x \in S : \A y \in S : y <= x
SetMin(S) == CHOOSE x \in S : \A y \in S : x <= y

\* bytes.IndexByte(data[lo:hi], c)
IndexByte(lo, hi, c) ==
  LET S == {p \in lo..(hi - 1) : At(p) = c}
  IN  IF S = {} THEN 0 - 1 ELSE SetMin(S) - lo

\* bytes.LastIndexByte(data[lo:hi], c)
LastIndexByte(lo, hi, c) ==
  LET S == {p \in lo..(hi - 1) : At(p) = c}
  IN  IF S = {} THEN 0 - 1 ELSE SetMax(S) - lo

\* binary.LittleEndian.Uint64(data[lo:]), which needs 8 bytes
Uint64(lo) == [k \in 1..8 |-> data[lo + k]]

Min2(a, b) == IF a <= b THEN a ELSE b
Max2(a, b) == IF a >= b THEN a ELSE b

\* measurement{min: temp, max: temp, sum: temp, count: 1}
newMeasurement(temp) == [min |-> temp, max |-> temp, sum |-> temp, count |-> 1]

\* ---------------------------------------------------------------- parseRow
\* parseRow(data[lo:hi]): fatal, a panic of parseNumber's data[0], or the map
parseRow(lo, hi) ==
  LET semiPos == IndexByte(lo, hi, SEMI)
  IN  IF semiPos = 0 - 1 \/ At(hi - 1) # NL
        THEN [outcome |-> "fatal", map |-> EmptyMap]
      ELSE IF hi - 1 - (lo + semiPos + 1) <= 0
        THEN [outcome |-> "panic", map |-> EmptyMap]
      ELSE [outcome |-> "ok",
            map |-> (Slice(lo, lo + semiPos) :>
                       newMeasurement(parseNumber(Slice(lo + semiPos + 1, hi - 1))))]

\* ------------------------------------------------------------ processChunk
RECURSIVE fnv1a(_, _, _)
\* the FNV-1a loop over the n bytes data[lo : lo+n], from hash h
fnv1a(lo, n, h) ==
  IF n = 0 THEN h
  ELSE fnv1a(lo + 1, n - 1,
             Mul64([h EXCEPT ![1] = XorByte(h[1], At(lo))], fnv1aPrime64))

\* key & uint64(nBuckets-1), nBuckets a power of two below 2^16
bucketOf(key) == (key[1] + 256 * key[2]) % nBuckets

\* buckets[i] of the sparse table: a bucket never appended to is empty
bucketAt(buckets, i) == IF i \in DOMAIN buckets THEN buckets[i] ELSE <<>>

\* getMeasurement that takes the first entry of the key's bucket, whatever
\* its key
getMeasurementAnyKey(w, key) ==
  LET b == bucketAt(w.buckets, bucketOf(key))
  IN  IF b = <<>> THEN 0 - 1 ELSE b[1].mid

\* getMeasurement: the mid of the first entry of the key's bucket that holds
\* the key, -1 for nil
getMeasurement(w, key) ==
  LET b == bucketAt(w.buckets, bucketOf(key))
      J == {j \in 1..Len(b) : b[j].key = key}
  IN  IF J = {} THEN 0 - 1 ELSE b[SetMin(J)].mid

\* putMeasurement that takes the mid after the append
putMeasurementMidAfterAppend(w, key, m) ==
  LET i == bucketOf(key)
  IN  [w EXCEPT
         !.buckets = (i :> Append(bucketAt(w.buckets, i),
                                  [key |-> key, mid |-> Len(w.measurements) + 1]))
                     @@ w.buckets,
         !.measurements = Append(w.measurements, m)]

\* putMeasurement
putMeasurement(w, key, m) ==
  LET i == bucketOf(key)
  IN  [w EXCEPT
         !.buckets = (i :> Append(bucketAt(w.buckets, i),
                                  [key |-> key, mid |-> Len(w.measurements)]))
                     @@ w.buckets,
         !.measurements = Append(w.measurements, m)]

\* updateMeasurement without its max line
updateMeasurementKeepsMax(m, temp) ==
  [min |-> Min2(m.min, temp), max |-> m.max,
   sum |-> m.sum + temp, count |-> m.count + 1]

\* updateMeasurement without its count line
updateMeasurementNoCount(m, temp) ==
  [min |-> Min2(m.min, temp), max |-> Max2(m.max, temp),
   sum |-> m.sum + temp, count |-> m.count]

\* m.min = min(m.min, temp) ... m.count++
updateMeasurement(m, temp) ==
  [min |-> Min2(m.min, temp), max |-> Max2(m.max, temp),
   sum |-> m.sum + temp, count |-> m.count + 1]

\* a fold that stores the name of every record under its hash
foldRecordRenames(w, idHash, idData, temp) ==
  LET mid == getMeasurement(w, idHash)
  IN  IF mid = 0 - 1
        THEN [putMeasurement(w, idHash, newMeasurement(temp))
                EXCEPT !.ids = (idHash :> idData) @@ w.ids]
        ELSE [w EXCEPT !.measurements[mid + 1] =
                          updateMeasurement(w.measurements[mid + 1], temp),
                       !.ids = (idHash :> idData) @@ w.ids]

\* the fold of one parsed record into the worker's table
foldRecord(w, idHash, idData, temp) ==
  LET mid == getMeasurement(w, idHash)
  IN  IF mid = 0 - 1
        THEN [putMeasurement(w, idHash, newMeasurement(temp))
                EXCEPT !.ids = (idHash :> idData) @@ w.ids]
        ELSE [w EXCEPT !.measurements[mid + 1] =
                          updateMeasurement(w.measurements[mid + 1], temp)]

\* the loop condition of the scan: len(data) > chunkOverlap
scanMore(w) == w.hi - w.lo > chunkOverlap

\* one iteration of the scan loop on the view data[w.lo : w.hi]; the load of
\* the 8-byte word panics when fewer than 8 bytes are left
scanRecord(w) ==
  LET semi    == IndexByte(w.lo, w.hi, SEMI)
      semiPos == IF semi = 0 - 1 THEN 0 ELSE semi
      hashed  == IF semi = 0 - 1 THEN w.hi - w.lo ELSE semi
      idHash  == fnv1a(w.lo, hashed, fnv1aOffset64)
      idData  == Slice(w.lo, w.lo + semiPos)
      lo1     == w.lo + semiPos + 1
  IN  IF w.hi - lo1 < 8
        THEN [w EXCEPT !.pc = "panic"]
        ELSE LET p    == inlineParseNumberLE(Uint64(lo1))
                 temp == p[1]
                 size == p[2]
             IN  IF lo1 + size + 1 > w.hi
                   THEN [w EXCEPT !.pc = "panic"]
                   ELSE [foldRecord(w, idHash, idData, temp) EXCEPT
                           !.lo = lo1 + size + 1,
                           !.parsed = Append(w.parsed, w.lo)]

RECURSIVE entryList(_, _)
\* the entries in the order of "for _, bucket := range buckets", from the
\* bucket indices I on
entryList(buckets, I) ==
  IF I = {} THEN <<>>
  ELSE LET i == SetMin(I) IN buckets[i] \o entryList(buckets, I \ {i})

\* the result map of processChunk: a later entry of the same name replaces
\* an earlier one
chunkResult(w) ==
  LET es   == entryList(w.buckets, DOMAIN w.buckets)
      name(k) == w.ids[es[k].key]
      ns   == {name(k) : k \in 1..Len(es)}
  IN  [n \in ns |->
         w.measurements[es[SetMax({k \in 1..Len(es) : name(k) = n})].mid + 1]]

\* the goroutine of chunk i before it runs
newWorker(lo, hi) ==
  [pc |-> "scan", lo |-> lo, hi |-> hi, buckets |-> EmptyMap,
   measurements |-> <<>>, ids |-> EmptyMap, parsed |-> <<>>]

idleWorker == [newWorker(0, 0) EXCEPT !.pc = "idle"]

\* ----------------------------------------------------------------- process
\* the chunk size rounded up
chunkSizeCeil == (Len(data) + nChunks - 1) \div nChunks

\* the chunk size of twice as many chunks
chunkSizeHalved == Len(data) \div (2 * nChunks)

\* chunkSize := len(data) / nChunks
chunkSize == Len(data) \div nChunks

\* log.Fatalf and a runtime panic both end the whole program, goroutines
\* included
running == pc \notin {"fatal", "panic"}

\* mergeInto taking the incoming min instead of the smaller one
mergeIntoLastMin(acc, id, rm) ==
  IF id \notin DOMAIN acc
    THEN (id :> rm) @@ acc
    ELSE [acc EXCEPT ![id] = [min |-> rm.min,
                              max |-> Max2(acc[id].max, rm.max),
                              sum |-> acc[id].sum + rm.sum,
                              count |-> acc[id].count + rm.count]]

\* the merge of one station of one result map into the accumulator
mergeInto(acc, id, rm) ==
  IF id \notin DOMAIN acc
    THEN (id :> rm) @@ acc
    ELSE [acc EXCEPT ![id] = [min |-> Min2(acc[id].min, rm.min),
                              max |-> Max2(acc[id].max, rm.max),
                              sum |-> acc[id].sum + rm.sum,
                              count |-> acc[id].count + rm.count]]

\* a wait that never blocks
waitReturnsAtOnce == TRUE

\* a wait that never returns
waitReturnsNever == FALSE

\* wg.Wait() returns once the counter is zero
waitReturns == wg = 0

\* the boundary on the newline itself
atNewline(o, nlPos) == o + nlPos

\* offset += nlPos + 1: the boundary right after the newline found
afterNewline(o, nlPos) == o + nlPos + 1

\* start left where it was
nextStartStale(s, chunk) == s

\* start = chunk: the next chunk starts where this one ends
nextStart(s, chunk) == chunk

\* the task that is the main flow of process, as a writer of results
mainTask == 0 - 1

\* process up to the partitioning loop: the chunk size check, the search of
\* the last row and the single row case
Start ==
  /\ pc = "start"
  /\ IF chunkSize = 0
       THEN /\ pc' = "fatal"
            /\ UNCHANGED <<lastRowOffset, ret>>
       ELSE LET l == LastIndexByte(0, Len(data) - 1, NL)
            IN  IF l = 0 - 1
                  THEN LET r == parseRow(0, Len(data))
                       IN  /\ pc' = IF r.outcome = "ok" THEN "done" ELSE r.outcome
                           /\ ret' = r.map
                           /\ UNCHANGED lastRowOffset
                  ELSE /\ lastRowOffset' = l + 1
                       /\ pc' = "partition"
                       /\ UNCHANGED ret
  /\ UNCHANGED <<data, nChunks, rows, offset, chunks, start, next, wg, results,
                 writers, workers, measurements, mergeIdx, visited, num>>

\* one iteration of the partitioning loop
Partition ==
  /\ pc = "partition"
  /\ IF offset < Len(data)
       THEN LET o == offset + chunkSize
            IN  IF o >= lastRowOffset
                  THEN /\ chunks' = Append(chunks, lastRowOffset)
                       /\ offset' = o
                       /\ pc' = "prepare"
                  ELSE LET nlPos == IndexByte(o, lastRowOffset, NL)
                       IN  IF nlPos = 0 - 1
                             THEN /\ chunks' = Append(chunks, lastRowOffset)
                                  /\ offset' = o
                                  /\ pc' = "prepare"
                             ELSE /\ offset' = afterNewline(o, nlPos)
                                  /\ chunks' = Append(chunks, afterNewline(o, nlPos))
                                  /\ pc' = "partition"
       ELSE /\ pc' = "prepare"
            /\ UNCHANGED <<offset, chunks>>
  /\ UNCHANGED <<data, nChunks, rows, lastRowOffset, start, next, wg, results,
                 writers, workers, measurements, mergeIdx, visited, ret, num>>

\* wg.Add(len(chunks)), results := make(..., len(chunks)+1), start := 0
Prepare ==
  /\ pc = "prepare"
  /\ wg' = Len(chunks)
  /\ results' = [i \in 0..Len(chunks) |-> EmptyMap]
  /\ writers' = [i \in 0..Len(chunks) |-> <<>>]
  /\ workers' = [i \in 0..(Len(chunks) - 1) |-> idleWorker]
  /\ start' = 0
  /\ next' = 0
  /\ pc' = "launch"
  /\ UNCHANGED <<data, nChunks, rows, lastRowOffset, offset, chunks,
                 measurements, mergeIdx, visited, ret, num>>

\* one iteration of the launch loop: the chunk's view and its goroutine
Launch ==
  /\ pc = "launch"
  /\ next < Len(chunks)
  /\ LET chunk == chunks[next + 1]
     IN  IF chunk + chunkOverlap > Len(data) \/ start > chunk + chunkOverlap
           THEN /\ pc' = "panic"
                /\ UNCHANGED <<workers, start, next>>
           ELSE /\ workers' = [workers EXCEPT
                                 ![next] = newWorker(start, chunk + chunkOverlap)]
                /\ start' = nextStart(start, chunk)
                /\ next' = next + 1
                /\ pc' = "launch"
  /\ UNCHANGED <<data, nChunks, rows, lastRowOffset, offset, chunks, wg,
                 results, writers, measurements, mergeIdx, visited, ret, num>>

\* results[len(results)-1] = parseRow(data[lastRowOffset:])
LastRow ==
  /\ pc = "launch"
  /\ next = Len(chunks)
  /\ LET r == parseRow(lastRowOffset, Len(data))
     IN  IF r.outcome = "ok"
           THEN /\ results' = [results EXCEPT ![Len(chunks)] = r.map]
                /\ writers' = [writers EXCEPT
                                 ![Len(chunks)] = Append(@, mainTask)]
                /\ pc' = "wait"
           ELSE /\ pc' = r.outcome
                /\ UNCHANGED <<results, writers>>
  /\ UNCHANGED <<data, nChunks, rows, lastRowOffset, offset, chunks, start,
                 next, wg, workers, measurements, mergeIdx, visited, ret, num>>

\* wg.Wait(), then measurements := make(map[string]*measurement)
Wait ==
  /\ pc = "wait"
  /\ waitReturns
  /\ pc' = "merge"
  /\ measurements' = EmptyMap
  /\ mergeIdx' = 0
  /\ visited' = {}
  /\ UNCHANGED <<data, nChunks, rows, lastRowOffset, offset, chunks, start,
                 next, wg, results, writers, workers, ret, num>>

\* one step of the merge loops: a station of results[mergeIdx] not folded yet,
\* in the order the map iteration yields, or the move to the next result
Merge ==
  /\ pc = "merge"
  /\ mergeIdx <= Len(chunks)
  /\ LET r == results[mergeIdx]
     IN  IF DOMAIN r \ visited = {}
           THEN /\ mergeIdx' = mergeIdx + 1
                /\ visited' = {}
                /\ UNCHANGED measurements
           ELSE \E id \in DOMAIN r \ visited :
                  /\ measurements' = mergeInto(measurements, id, r[id])
                  /\ visited' = visited \cup {id}
                  /\ UNCHANGED mergeIdx
  /\ UNCHANGED <<data, nChunks, rows, pc, lastRowOffset, offset, chunks, start,
                 next, wg, results, writers, workers, ret, num>>

\* return measurements
Return ==
  /\ pc = "merge"
  /\ mergeIdx = Len(chunks) + 1
  /\ pc' = "done"
  /\ ret' = measurements
  /\ UNCHANGED <<data, nChunks, rows, lastRowOffset, offset, chunks, start,
                 next, wg, results, writers, workers, measurements, mergeIdx,
                 visited, num>>

\* goroutine i: one iteration of processChunk's scan loop
ScanRecord(i) ==
  /\ running
  /\ workers[i].pc = "scan"
  /\ scanMore(workers[i])
  /\ LET w == scanRecord(workers[i])
     IN  /\ workers' = [workers EXCEPT ![i] = w]
         /\ pc' = IF w.pc = "panic" THEN "panic" ELSE pc
  /\ UNCHANGED <<data, nChunks, rows, lastRowOffset, offset, chunks, start,
                 next, wg, results, writers, measurements, mergeIdx, visited,
                 ret, num>>

\* goroutine i: the scan loop has ended; results[i] = processChunk(data)
FinishChunk(i) ==
  /\ running
  /\ workers[i].pc = "scan"
  /\ ~scanMore(workers[i])
  /\ results' = [results EXCEPT ![i] = chunkResult(workers[i])]
  /\ writers' = [writers EXCEPT ![i] = Append(@, i)]
  /\ workers' = [workers EXCEPT ![i].pc = "signal"]
  /\ UNCHANGED <<data, nChunks, rows, pc, lastRowOffset, offset, chunks, start,
                 next, wg, measurements, mergeIdx, visited, ret, num>>

\* goroutine i: wg.Done()
Done(i) ==
  /\ running
  /\ workers[i].pc = "signal"
  /\ wg' = wg - 1
  /\ workers' = [workers EXCEPT ![i].pc = "done"]
  /\ UNCHANGED <<data, nChunks, rows, pc, lastRowOffset, offset, chunks, start,
                 next, results, writers, measurements, mergeIdx, visited, ret,
                 num>>

Next ==
  \/ Start
  \/ Partition
  \/ Prepare
  \/ Launch
  \/ LastRow
  \/ Wait
  \/ Merge
  \/ Return
  \/ \E i \in DOMAIN workers : ScanRecord(i)
  \/ \E i \in DOMAIN workers : FinishChunk(i)
  \/ \E i \in DOMAIN workers : Done(i)

\* ------------------------------------------------------------- the inputs
\* station names: "a", "b"
Names == {<<97>>, <<98>>}

\* the number texts of the chunked runs: "1.5", "-12.3"
ChunkTexts == {<<49, DOT, 53>>, <<MINUS, 49, 50, DOT, 51>>}

\* the number texts of the single-record runs: also "0.0", "23.4"
RowTexts == ChunkTexts \cup {<<ZERO, DOT, ZERO>>, <<50, 51, DOT, 52>>}

\* the bytes of one record: the name, the separator, the number text and the
\* terminator (";" and "\n" in a well-formed record)
rowBytes(r) == r.name \o r.sep \o r.text \o r.term

RECURSIVE bufferOf(_)
\* the buffer holding the records rs in order
bufferOf(rs) == IF rs = <<>> THEN <<>> ELSE rowBytes(Head(rs)) \o bufferOf(Tail(rs))

\* the well-formed records over the names and the number texts given
RowSet(texts) ==
  {[name |-> n, sep |-> <<SEMI>>, text |-> t, term |-> <<NL>>] :
     n \in Names, t \in texts}

\* the sequences of 1..n records over the set R
RowSeqs(R, n) == UNION {[1..k -> R] : k \in 1..n}

\* the state a run starts in, for the records rs and the worker count n
InitRun(rs, n) ==
  /\ rows = rs
  /\ data = bufferOf(rs)
  /\ nChunks = n
  /\ pc = "start"
  /\ lastRowOffset = 0
  /\ offset = 0
  /\ chunks = <<>>
  /\ start = 0
  /\ next = 0
  /\ wg = 0
  /\ results = EmptyMap
  /\ writers = EmptyMap
  /\ workers = EmptyMap
  /\ measurements = EmptyMap
  /\ mergeIdx = 0
  /\ visited = {}
  /\ ret = EmptyMap
  /\ num = EmptyMap

\* well-formed buffers: 1..MaxRecords records with 1..MaxWorkers workers, or
\* one record or none with 1..MaxCPU workers
Init ==
  \/ \E rs \in RowSeqs(RowSet(ChunkTexts), MaxRecords), n \in 1..MaxWorkers :
       InitRun(rs, n)
  \/ \E r \in RowSet(RowTexts), n \in 1..MaxCPU : InitRun(<<r>>, n)
  \/ \E n \in 1..MaxCPU : InitRun(<<>>, n)

Spec == Init /\ [][Next]_vars

\* --------------------------------------------- what the input is, by itself
RECURSIVE rowStart(_)
\* the offset of record k of rows in the buffer
rowStart(k) == IF k = 1 THEN 0 ELSE rowStart(k - 1) + Len(rowBytes(rows[k - 1]))

\* the offsets at which the records of the buffer start
rowStarts == {rowStart(k) : k \in 1..Len(rows)}

RECURSIVE digitsValue(_, _)
\* the decimal digits of a text read as one integer, the other bytes skipped
digitsValue(s, acc) ==
  IF s = <<>> THEN acc
  ELSE digitsValue(Tail(s), IF Head(s) \in ZERO..(ZERO + 9)
                              THEN 10 * acc + (Head(s) - ZERO) ELSE acc)

\* the value of a number text times 10
scaledValue(s) ==
  IF s # <<>> /\ Head(s) = MINUS THEN 0 - digitsValue(s, 0) ELSE digitsValue(s, 0)

RECURSIVE sumOver(_, _)
sumOver(f, S) ==
  IF S = {} THEN 0
  ELSE LET x == CHOOSE y \in S : TRUE IN f[x] + sumOver(f, S \ {x})

\* the statistics of every station after one pass over all the records
foldOfRows ==
  LET val == [k \in 1..Len(rows) |-> scaledValue(rows[k].text)]
      of(n) == {k \in 1..Len(rows) : rows[k].name = n}
  IN  [n \in {rows[k].name : k \in 1..Len(rows)} |->
         [min |-> SetMin({val[k] : k \in of(n)}),
          max |-> SetMax({val[k] : k \in of(n)}),
          sum |-> sumOver(val, of(n)),
          count |-> Cardinality(of(n))]]

\* distinct station names of the buffer have distinct hashes
distinctHashes ==
  \A j, k \in 1..Len(rows) :
    rows[j].name # rows[k].name
      => fnv1a(rowStart(j), Len(rows[j].name), fnv1aOffset64)
           # fnv1a(rowStart(k), Len(rows[k].name), fnv1aOffset64)

\* the logical range [chunkStart(i), chunkEnd(i)) of chunk i
chunkStart(i) == IF i = 0 THEN 0 ELSE chunks[i]
chunkEnd(i) == chunks[i + 1]

\* the chunks have been computed and the workers exist
partitioned == pc \in {"launch", "wait", "merge", "done"}

\* the merge loops of process as one fold over a list of result maps
RECURSIVE mergeMap(_, _, _)
mergeMap(acc, r, todo) ==
  IF todo = {} THEN acc
  ELSE LET id == CHOOSE x \in todo : TRUE
       IN  mergeMap(mergeInto(acc, id, r[id]), r, todo \ {id})

RECURSIVE mergeAll(_, _)
mergeAll(acc, rs) ==
  IF rs = <<>> THEN acc
  ELSE mergeAll(mergeMap(acc, Head(rs), DOMAIN Head(rs)), Tail(rs))

\* ------------------------------------------------------------------ claims

\* C1: for a well-formed buffer whose station names have distinct hashes, the
\* map process returns holds, for every station, the min, max, sum and count
\* of one sequential pass over all records, whatever the worker count and
\* the chunk boundaries are.
C1_ProcessEqualsSequentialFold ==
  (pc = "done" /\ distinctHashes) => ret = foldOfRows

\* C1 witness: a run has returned after two workers scanned records and a
\* station was merged from two different result maps.
C1_Witness ==
  /\ pc = "done"
  /\ distinctHashes
  /\ Len(chunks) >= 2
  /\ workers[0].parsed # <<>>
  /\ workers[1].parsed # <<>>
  /\ \E n \in DOMAIN results[0] : n \in DOMAIN results[1] /\ ret[n].count >= 3

\* C2: every record is folded exactly once: a worker scans records that start
\* inside its logical range only, once its loop has ended it has scanned
\* exactly those, in order, and chunkOverlap bytes are left; the counts of the
\* returned map add up to the number of records.
C2_EachRecordOnce ==
  /\ \A i \in DOMAIN workers :
       LET w      == workers[i]
           mine   == {p \in rowStarts : chunkStart(i) <= p /\ p < chunkEnd(i)}
       IN  w.pc # "idle" =>
             /\ \A k \in 1..Len(w.parsed) : w.parsed[k] \in mine
             /\ \A k \in 1..(Len(w.parsed) - 1) : w.parsed[k] < w.parsed[k + 1]
             /\ w.pc \in {"signal", "done"} =>
                  /\ {w.parsed[k] : k \in 1..Len(w.parsed)} = mine
                  /\ w.hi - w.lo = chunkOverlap
  /\ pc = "done" =>
       sumOver([n \in DOMAIN ret |-> ret[n].count], DOMAIN ret) = Len(rows)

\* C2 witness: a run has returned in which two workers each scanned records
\* on both sides of a chunk boundary inside the buffer.
C2_Witness ==
  /\ pc = "done"
  /\ Len(chunks) >= 2
  /\ workers[0].parsed # <<>>
  /\ workers[1].parsed # <<>>
  /\ workers[1].hi - workers[1].lo = chunkOverlap
  /\ workers[1].parsed[1] = chunks[1]

\* the result maps in the order p of the slots
permuted(p) == [k \in 1..(Len(chunks) + 1) |-> results[p[k - 1]]]

\* C3: the merged result is the same for every order in which the workers
\* finish and for every order in which the result maps, and the stations of
\* each map, are folded: the map returned equals the fold of the results list
\* in every permutation.
C3_MergeOrderIndependent ==
  (pc = "done" /\ Len(rows) >= 2) =>
    \A p \in Permutations(0..Len(chunks)) : mergeAll(EmptyMap, permuted(p)) = ret

\* C3 witness: a run has returned in which a station came from two result
\* maps that differ in its min and in its max.
C3_Witness ==
  /\ pc = "done"
  /\ Len(chunks) >= 2
  /\ \E i, j \in DOMAIN results : \E n \in DOMAIN results[i] :
       /\ i < j
       /\ n \in DOMAIN results[j]
       /\ results[i][n].min < results[j][n].min
       /\ results[i][n].max < results[j][n].max

\* C5: the merge starts only after every launched worker has stored its
\* result: a slot of results is assigned at most once, by its worker (the
\* last slot by the main flow), and when the merge runs every slot has been
\* assigned and every worker has signalled.
C5_MergeAfterAllStored ==
  /\ \A i \in DOMAIN writers :
       /\ Len(writers[i]) <= 1
       /\ \A k \in 1..Len(writers[i]) :
            writers[i][k] = IF i = Len(chunks) THEN mainTask ELSE i
  /\ (pc \in {"merge", "done"} /\ Len(rows) >= 2) =>
       /\ \A i \in DOMAIN writers : Len(writers[i]) = 1
       /\ \A i \in DOMAIN workers : workers[i].pc = "done"
       /\ wg = 0

\* C5 witness: the merge is about to read the first slot after two workers
\* and the main flow have each assigned theirs.
C5_Witness ==
  /\ pc = "merge"
  /\ mergeIdx = 0
  /\ Len(chunks) >= 2
  /\ \A i \in DOMAIN writers : Len(writers[i]) = 1
  /\ workers[0].parsed # <<>>
  /\ workers[1].parsed # <<>>

\* C6: for a buffer of at least two records the chunk boundaries are
\* non-decreasing, each is the position right after a newline and the start
\* of a record, and once the loop has ended the last one is lastRowOffset:
\* the ranges [chunkStart(i), chunkEnd(i)) and the last row
\* [lastRowOffset, len(data)) are disjoint and cover the buffer.
C6_ChunksAlignedAndCovering ==
  Len(rows) >= 2 =>
    /\ \A k \in 1..Len(chunks) :
         /\ chunks[k] >= 1
         /\ At(chunks[k] - 1) = NL
         /\ chunks[k] \in rowStarts
         /\ chunks[k] <= lastRowOffset
         /\ k > 1 => chunks[k - 1] <= chunks[k]
    /\ pc # "start" => lastRowOffset = rowStart(Len(rows))
    /\ partitioned =>
         /\ Len(chunks) >= 1
         /\ chunks[Len(chunks)] = lastRowOffset
         /\ \A p \in 0..(lastRowOffset - 1) :
              Cardinality({i \in 0..(Len(chunks) - 1) :
                             chunkStart(i) <= p /\ p < chunkEnd(i)}) = 1
         /\ \A i \in DOMAIN workers :
              workers[i].pc # "idle" =>
                /\ workers[i].hi = chunkEnd(i) + chunkOverlap
                /\ workers[i].lo >= chunkStart(i)
                /\ workers[i].parsed = <<>> /\ workers[i].pc = "scan"
                     => workers[i].lo = chunkStart(i)

\* C6 witness: the workers exist for two chunks of which the first ends
\* inside the buffer, before the last row.
C6_Witness ==
  /\ pc = "launch"
  /\ Len(chunks) >= 2
  /\ 0 < chunks[1]
  /\ chunks[1] < chunks[2]
  /\ chunks[2] = lastRowOffset

\* the bytes left in worker w's view from the first byte of the next value
bytesAtLoad(w) ==
  LET semi == IndexByte(w.lo, w.hi, SEMI)
  IN  w.hi - (w.lo + (IF semi = 0 - 1 THEN 0 ELSE semi) + 1)

\* C7: no read is out of bounds: every chunk view lies inside the buffer, and
\* whenever a worker is about to scan a record at least 8 bytes are left in
\* its view from the first byte of the value; nothing panics.
C7_NoReadOutOfBounds ==
  /\ pc # "panic"
  /\ \A i \in DOMAIN workers :
       LET w == workers[i]
       IN  w.pc # "idle" =>
             /\ w.pc # "panic"
             /\ 0 <= w.lo /\ w.lo <= w.hi /\ w.hi <= Len(data)
             /\ (w.pc = "scan" /\ scanMore(w)) => bytesAtLoad(w) >= 8

\* C7 witness: the worker of the last chunk is about to load the value of
\* its last record with exactly 8 bytes left, 4 of them of the last row.
C7_Witness ==
  /\ Len(chunks) >= 1
  /\ pc \in {"launch", "wait"}
  /\ LET i == Len(chunks) - 1
         w == workers[i]
     IN  /\ w.pc = "scan"
         /\ scanMore(w)
         /\ w.hi = lastRowOffset + chunkOverlap
         /\ bytesAtLoad(w) = 8

\* -------------------------------------------------------- the parser runs
Digits == ZERO..(ZERO + 9)

\* the texts matching -?[0-9]{1,2}\.[0-9]
UnsignedTexts ==
  {<<a, DOT, c>> : a, c \in Digits}
    \cup {<<a, b, DOT, c>> : a, b, c \in Digits}
NumberTexts == UnsignedTexts \cup {<<MINUS>> \o t : t \in UnsignedTexts}

\* the bytes tried after the terminator: 0x00, 0x10, '.', '9', '_', 0xff
FillBytes == {0, 16, DOT, ZERO + 9, 95, 255}

\* the 8-byte window: the text, "\n", then the fill byte
windowOf(s, b) ==
  [k \in 1..8 |-> IF k <= Len(s) THEN s[k] ELSE IF k = Len(s) + 1 THEN NL ELSE b]

\* no run of process: only the parsers are applied
InitParse ==
  /\ \E s \in NumberTexts, b \in FillBytes :
       num = [state |-> "ready", text |-> s, word |-> windowOf(s, b),
              le |-> <<0, 0>>, inl |-> <<0, 0>>, bs |-> 0]
  /\ rows = <<>>
  /\ data = <<>>
  /\ nChunks = 1
  /\ pc = "parsers"
  /\ lastRowOffset = 0
  /\ offset = 0
  /\ chunks = <<>>
  /\ start = 0
  /\ next = 0
  /\ wg = 0
  /\ results = EmptyMap
  /\ writers = EmptyMap
  /\ workers = EmptyMap
  /\ measurements = EmptyMap
  /\ mergeIdx = 0
  /\ visited = {}
  /\ ret = EmptyMap

\* the three parsers applied to one text: parseNumberLE and its inlined copy
\* to the window, parseNumber to the text
ParseNumbers ==
  /\ num.state = "ready"
  /\ num' = [num EXCEPT !.state = "parsed",
                        !.le = parseNumberLE(num.word),
                        !.inl = inlineParseNumberLE(num.word),
                        !.bs = parseNumber(num.text)]
  /\ UNCHANGED <<data, nChunks, rows, pc, lastRowOffset, offset, chunks, start,
                 next, wg, results, writers, workers, measurements, mergeIdx,
                 visited, ret>>

SpecParse == InitParse /\ [][ParseNumbers]_vars

\* C4: for every text s matching -?[0-9]{1,2}\.[0-9], followed in the 8-byte
\* window by "\n" and any of the fill bytes, parseNumberLE returns the value
\* of s times 10, which is what parseNumber(s) returns, and the length of s;
\* the copy inlined in processChunk returns the same pair.
C4_WordFormEqualsSliceForm ==
  num.state = "parsed" =>
    /\ num.bs = scaledValue(num.text)
    /\ num.le = <<num.bs, Len(num.text)>>
    /\ num.inl = num.le

\* C4 witness: "-99.9" followed by "\n" and 0xff bytes has been parsed to
\* -999 and 5 bytes.
C4_Witness ==
  /\ num.state = "parsed"
  /\ num.text = <<MINUS, ZERO + 9, ZERO + 9, DOT, ZERO + 9>>
  /\ num.word[8] = 255
  /\ num.le = <<0 - 999, 5>>

\* C8 as stated: a buffer of one well-formed record is parsed directly, for
\* every worker count: process returns one station with min = max = sum = the
\* value and count = 1, without chunks or workers.
C8_SingleRecordAnyWorkerCount ==
  (Len(rows) = 1 /\ pc # "start") =>
    /\ pc = "done"
    /\ chunks = <<>>
    /\ workers = EmptyMap
    /\ ret = (rows[1].name :> newMeasurement(scaledValue(rows[1].text)))

\* C8 amended: a buffer of one well-formed record, with a worker count that is
\* at most len(data), is parsed directly: process returns one station with
\* min = max = sum = the value and count = 1, without chunks or workers.
C8_SingleRecordDirect ==
  (Len(rows) = 1 /\ pc # "start" /\ nChunks <= Len(data)) =>
    /\ pc = "done"
    /\ chunks = <<>>
    /\ workers = EmptyMap
    /\ wg = 0
    /\ ret = (rows[1].name :> newMeasurement(scaledValue(rows[1].text)))

\* C8 witness: "a;0.0\n" with as many workers as bytes has been returned as
\* one station of count 1.
C8_Witness ==
  /\ Len(rows) = 1
  /\ rows[1].text = <<ZERO, DOT, ZERO>>
  /\ nChunks = Len(data)
  /\ pc = "done"
  /\ DOMAIN ret = {rows[1].name}

\* ------------------------------------------- buffers that are not well-formed
\* a record of the format name;value\n, value matching -?[0-9]{1,2}\.[0-9]
wellFormedRow(r) ==
  /\ r.sep = <<SEMI>>
  /\ r.term = <<NL>>
  /\ r.text \in NumberTexts
  /\ \A k \in 1..Len(r.name) : r.name[k] \notin {SEMI, NL}

\* records of station "a" that violate the format: the value "5", the value
\* "123.4", no ';', no "\n"
BadRows ==
  LET good == [name |-> <<97>>, sep |-> <<SEMI>>, text |-> <<49, DOT, 53>>,
               term |-> <<NL>>]
  IN  {[good EXCEPT !.text = <<53>>],
       [good EXCEPT !.text = <<49, 50, 51, DOT, 52>>],
       [good EXCEPT !.sep = <<>>],
       [good EXCEPT !.term = <<>>]}

\* buffers of 1..MaxRecords records of which exactly one, at any position,
\* violates the format
InitMalformed ==
  \E rs \in RowSeqs(RowSet(ChunkTexts) \cup BadRows, MaxRecords),
     n \in 1..MaxWorkers :
    /\ Cardinality({k \in 1..Len(rs) : rs[k] \in BadRows}) = 1
    /\ InitRun(rs, n)

SpecMalformed == InitMalformed /\ [][Next]_vars

\* every record but the last is well-formed and the last one lacks only its
\* newline
lastRowUnterminated ==
  /\ rows # <<>>
  /\ \A k \in 1..(Len(rows) - 1) : wellFormedRow(rows[k])
  /\ rows[Len(rows)].term = <<>>
  /\ wellFormedRow([rows[Len(rows)] EXCEPT !.term = <<NL>>])

\* C9: a buffer whose last record omits the trailing newline is accepted:
\* process does not end fatally, and once it has returned the last record is
\* in the statistics as if the newline were there.
C9_LastNewlineOptional ==
  lastRowUnterminated =>
    /\ pc \notin {"fatal", "panic"}
    /\ pc = "done" => ret = foldOfRows

\* C10: whenever a record of the buffer violates the format, process ends
\* fatally and returns no map: it never reaches its return.
C10_MalformedIsFatal ==
  (\E k \in 1..Len(rows) : ~wellFormedRow(rows[k])) => pc # "done"


\* C11: when the buffer is empty or shorter than the worker count, process
\* ends in the fatal state with no worker launched, no record parsed and no
\* map returned.
C11_TooSmallIsFatal ==
  (Len(data) < nChunks /\ pc # "start") =>
    /\ pc = "fatal"
    /\ chunks = <<>>
    /\ workers = EmptyMap
    /\ results = EmptyMap
    /\ wg = 0
    /\ ret = EmptyMap

\* C11 witness: a buffer of one record with more workers than bytes has ended
\* fatally.
C11_Witness ==
  /\ Len(rows) = 1
  /\ Len(data) < nChunks
  /\ pc = "fatal"


\* ---------------------------------------------------------------------------
\* float64 arithmetic of the printed mean.  A finite float64 is a sign, the
\* significand as a sequence of bits (most significant first, no leading
\* zero, empty for zero) and the exponent of its last bit.

\* the largest absolute sum, in tenths, of a rounded mean
MaxSum == 30

\* the largest record count of a rounded mean
MaxCount == 6

\* the bits of the significand of a float64
mantissaBits == 53

RECURSIVE bitsOf(_)
\* the bits of a natural number, most significant first
bitsOf(n) == IF n = 0 THEN <<>> ELSE bitsOf(n \div 2) \o <<n % 2>>

RECURSIVE valueOfBits(_)
\* the natural number of a bit sequence
valueOfBits(b) ==
  IF b = <<>> THEN 0
  ELSE 2 * valueOfBits(SubSeq(b, 1, Len(b) - 1)) + b[Len(b)]

\* n zero bits
zeroBits(n) == [i \in 1..n |-> 0]

\* a bit sequence without its leading zeros
stripZeros(b) ==
  LET ones == {i \in 1..Len(b) : b[i] = 1}
  IN IF ones = {} THEN <<>> ELSE SubSeq(b, SetMin(ones), Len(b))

\* a bit sequence plus one
incBits(b) ==
  LET zeros == {i \in 1..Len(b) : b[i] = 0}
  IN IF zeros = {} THEN <<1>> \o zeroBits(Len(b))
     ELSE SubSeq(b, 1, SetMax(zeros) - 1) \o <<1>>
            \o zeroBits(Len(b) - SetMax(zeros))

\* a bit sequence as base-256 digits, most significant first
bytesOfBits(b) ==
  LET n == (Len(b) + 7) \div 8
      p == zeroBits(8 * n - Len(b)) \o b
  IN [i \in 1..n |->
        128 * p[8 * i - 7] + 64 * p[8 * i - 6] + 32 * p[8 * i - 5]
          + 16 * p[8 * i - 4] + 8 * p[8 * i - 3] + 4 * p[8 * i - 2]
          + 2 * p[8 * i - 1] + p[8 * i]]

\* the bits of base-256 digits
bitsOfBytes(d) ==
  [i \in 1..(8 * Len(d)) |->
     (d[(i - 1) \div 8 + 1] \div (2 ^ (7 - ((i - 1) % 8)))) % 2]

\* the exact value b * 2^exp (with sticky: and a little more) rounded to a
\* float64, to nearest, ties to even
roundToEven(neg, b, exp, sticky) ==
  IF Len(b) <= mantissaBits THEN [neg |-> neg, man |-> b, exp |-> exp]
  ELSE
    LET keep == SubSeq(b, 1, mantissaBits)
        rest == sticky \/ \E i \in (mantissaBits + 2)..Len(b) : b[i] = 1
        up == b[mantissaBits + 1] = 1 /\ (rest \/ keep[mantissaBits] = 1)
        m == IF up THEN incBits(keep) ELSE keep
        e == exp + Len(b) - mantissaBits
    IN IF Len(m) > mantissaBits
         THEN [neg |-> neg, man |-> SubSeq(m, 1, mantissaBits), exp |-> e + 1]
         ELSE [neg |-> neg, man |-> m, exp |-> e]

\* float64(n) of an integer n below 2^53: exact
float64(n) ==
  [neg |-> n < 0, man |-> bitsOf(IF n < 0 THEN 0 - n ELSE n), exp |-> 0]

RECURSIVE longDivision(_, _, _, _, _)
\* the quotient digits and the remainder of the base-256 digits b by d, from
\* digit i
longDivision(b, d, i, rem, q) ==
  IF i > Len(b) THEN <<q, rem>>
  ELSE LET r == 256 * rem + b[i]
       IN longDivision(b, d, i + 1, r % d, q \o <<r \div d>>)

\* x / float64(d) for a positive integer d: the exact quotient, rounded
divide(x, d) ==
  IF x.man = <<>> THEN x
  ELSE
    LET k == mantissaBits + 2 + Len(bitsOf(d))
        qr == longDivision(bytesOfBits(x.man \o zeroBits(k)), d, 1, 0, <<>>)
    IN roundToEven(x.neg, stripZeros(bitsOfBytes(qr[1])), x.exp - k,
                   qr[2] # 0)

RECURSIVE mulBytes(_, _, _)
\* the base-256 digits of the digits b times the natural k below 256, plus
\* carry
mulBytes(b, k, carry) ==
  IF b = <<>> THEN <<carry>>
  ELSE LET v == b[Len(b)] * k + carry
       IN mulBytes(SubSeq(b, 1, Len(b) - 1), k, v \div 256) \o <<v % 256>>

\* x * float64(k) for a positive integer k: the exact product, rounded
multiply(x, k) ==
  IF x.man = <<>> THEN x
  ELSE roundToEven(x.neg, stripZeros(bitsOfBytes(
                     mulBytes(bytesOfBits(x.man), k, 0))), x.exp, FALSE)

\* the bits of |x| before the binary point
truncBits(x) ==
  IF x.exp >= 0 THEN x.man \o zeroBits(x.exp)
  ELSE IF Len(x.man) + x.exp > 0 THEN SubSeq(x.man, 1, Len(x.man) + x.exp)
  ELSE <<>>

\* the bits of |x| after the binary point
fractionBits(x) ==
  IF x.exp >= 0 THEN <<>>
  ELSE IF Len(x.man) + x.exp > 0
         THEN SubSeq(x.man, Len(x.man) + x.exp + 1, Len(x.man))
  ELSE zeroBits(0 - x.exp - Len(x.man)) \o x.man

\* roundJava: the integer returned, as its sign bit and its magnitude.  Below
\* 2^52 the differences t-x and x-t are exact, so the comparisons with 0.5
\* are comparisons of the fraction bits.
roundJava(x) ==
  LET t == valueOfBits(truncBits(x))
      f == fractionBits(x)
      half == f # <<>> /\ f[1] = 1 /\ \A i \in 2..Len(f) : f[i] = 0
      mag == IF x.neg /\ x.man # <<>> /\ half THEN t
             ELSE IF f # <<>> /\ f[1] = 1 THEN t + 1
             ELSE t
  IN IF mag = 0 THEN [neg |-> FALSE, int |-> 0]
     ELSE [neg |-> x.neg, int |-> mag]

\* round, in tenths: roundJava(x*10.0), before round divides it by 10.0 again
roundTenths(x) == roundJava(multiply(x, 10))

\* the mean main prints, in tenths:
\* round(float64(m.sum)/10.0/float64(m.count))
printedMean(sum, count) ==
  roundTenths(divide(divide(float64(sum), 10), count))

\* the integer of a sign bit and a magnitude
signedInt(r) == IF r.neg THEN 0 - r.int ELSE r.int

\* one station's totals, ready to be printed
InitRound ==
  /\ \E sum \in (0 - MaxSum)..MaxSum, count \in 1..MaxCount :
       num = [state |-> "ready", sum |-> sum, count |-> count,
              java |-> [neg |-> FALSE, int |-> 0],
              mean |-> [neg |-> FALSE, int |-> 0]]
  /\ rows = <<>>
  /\ data = <<>>
  /\ nChunks = 1
  /\ pc = "round"
  /\ lastRowOffset = 0
  /\ offset = 0
  /\ chunks = <<>>
  /\ start = 0
  /\ next = 0
  /\ wg = 0
  /\ results = EmptyMap
  /\ writers = EmptyMap
  /\ workers = EmptyMap
  /\ measurements = EmptyMap
  /\ mergeIdx = 0
  /\ visited = {}
  /\ ret = EmptyMap

\* roundJava applied to the float64 sum/10.0 (the values of TestRoundJava are
\* of this form), and the mean of sum over count as main prints it
PrintMean ==
  /\ num.state = "ready"
  /\ num' = [num EXCEPT !.state = "printed",
                        !.java = roundJava(divide(float64(num.sum), 10)),
                        !.mean = printedMean(num.sum, num.count)]
  /\ UNCHANGED <<data, nChunks, rows, pc, lastRowOffset, offset, chunks, start,
                 next, wg, results, writers, workers, measurements, mergeIdx,
                 visited, ret>>

SpecRound == InitRound /\ [][PrintMean]_vars

\* roundJava returns the nearest integer of sum/10, ties toward positive
\* infinity, and never a negative zero
roundJavaNearest ==
  num.state = "printed" =>
    /\ signedInt(num.java) = (num.sum + 5) \div 10
    /\ ~(num.java.neg /\ num.java.int = 0)

\* C12: roundJava returns the nearest integer with ties toward positive
\* infinity (-1.5 to -1, -0.5 to 0, 0.5 to 1, 1.5 to 2) and never a negative
\* zero, and the printed mean, in tenths, is floor(sum/count + 1/2).
C12_MeanRoundsHalfUp ==
  num.state = "printed" =>
    /\ roundJavaNearest
    /\ signedInt(num.mean) = (2 * num.sum + num.count) \div (2 * num.count)
    /\ ~(num.mean.neg /\ num.mean.int = 0)


\* the goroutines launched so far
launched == {i \in DOMAIN workers : workers[i].pc # "idle"}

\* C13: for a buffer of at least two records and N workers, N at most
\* len(data), the partitioning loop produces at least one and at most N
\* boundaries, the launch loop launches exactly one goroutine per boundary,
\* each on the view of its own chunk (which may be empty), and no goroutine
\* is created after the launch loop.
C13_OneWorkerPerChunk ==
  (Len(rows) >= 2 /\ Len(data) >= nChunks) =>
    /\ Len(chunks) <= nChunks
    /\ pc \in {"prepare", "launch", "wait", "merge", "done"} =>
         Len(chunks) >= 1
    /\ partitioned =>
         /\ DOMAIN workers = 0..(Len(chunks) - 1)
         /\ launched = 0..((IF pc = "launch" THEN next ELSE Len(chunks)) - 1)
         /\ \A i \in launched :
              /\ workers[i].hi = chunkEnd(i) + chunkOverlap
              /\ workers[i].lo >= chunkStart(i)
              /\ workers[i].lo <= chunkEnd(i)
              /\ workers[i].parsed # <<>> =>
                   workers[i].parsed[1] = chunkStart(i)

\* C13 witness: three workers asked for, three boundaries, three goroutines,
\* all launched and the launch loop left, one of them on an empty chunk.
C13_Witness ==
  /\ pc \in {"wait", "merge", "done"}
  /\ nChunks = 3
  /\ Len(chunks) = 3
  /\ launched = {0, 1, 2}
  /\ \E i \in launched : chunkStart(i) = chunkEnd(i)


\* the bounds every statistics entry keeps
statsConsistent(m) ==
  /\ m.count >= 1
  /\ m.min <= m.max
  /\ m.count * m.min <= m.sum
  /\ m.sum <= m.count * m.max

\* the values of the records of station n that start at one of the offsets P
valuesAt(P, n) ==
  {scaledValue(rows[k].text) :
     k \in {j \in 1..Len(rows) : rowStart(j) \in P /\ rows[j].name = n}}

\* the offsets of the records folded into result slot i
slotStarts(i) ==
  IF i < Len(chunks)
    THEN {workers[i].parsed[k] : k \in 1..Len(workers[i].parsed)}
    ELSE {rowStart(Len(rows))}

\* the offsets of the records of station n the merge has folded so far
mergedStarts(n) ==
  UNION {slotStarts(i) : i \in 0..(mergeIdx - 1)}
    \cup (IF mergeIdx <= Len(chunks) /\ n \in visited
            THEN slotStarts(mergeIdx) ELSE {})

\* C14: every statistics entry of a worker's table and of the merge
\* accumulator has count >= 1, min <= max and count*min <= sum <= count*max,
\* and its min and max are the smallest and the largest value folded into it
\* so far.
C14_StatsConsistent ==
  /\ \A i \in launched :
       LET w == workers[i]
           P == {w.parsed[k] : k \in 1..Len(w.parsed)}
       IN  /\ \A j \in 1..Len(w.measurements) :
                statsConsistent(w.measurements[j])
           /\ \A key \in DOMAIN w.ids :
                LET m == w.measurements[getMeasurement(w, key) + 1]
                IN  /\ m.min = SetMin(valuesAt(P, w.ids[key]))
                    /\ m.max = SetMax(valuesAt(P, w.ids[key]))
  /\ (pc \in {"merge", "done"} /\ Len(rows) >= 2) =>
       \A n \in DOMAIN measurements :
         /\ statsConsistent(measurements[n])
         /\ measurements[n].min = SetMin(valuesAt(mergedStarts(n), n))
         /\ measurements[n].max = SetMax(valuesAt(mergedStarts(n), n))

\* C14 witness: a worker's entry holds two records of different values, and
\* the accumulator, in the middle of the merge, an entry of three records.
C14_Witness ==
  /\ pc = "merge"
  /\ mergeIdx <= Len(chunks)
  /\ \E i \in launched : \E j \in 1..Len(workers[i].measurements) :
       /\ workers[i].measurements[j].count = 2
       /\ workers[i].measurements[j].min < workers[i].measurements[j].max
  /\ \E n \in DOMAIN measurements :
       /\ measurements[n].count = 3
       /\ measurements[n].min < measurements[n].max


\* ---------------------------------------------------------------------------
\* Two stations of one bucket: the hashes of "a" and "Rq" differ and agree in
\* their low 12 bits (bucket 3212).

\* the station names "a" and "Rq"
BucketNames == {<<97>>, <<82, 113>>}

\* buffers of 1..MaxRecords+1 records of the two stations, for one worker:
\* the table belongs to one worker, which scans all the records but the last
InitBuckets ==
  \E rs \in RowSeqs({[name |-> n, sep |-> <<SEMI>>, text |-> t, term |-> <<NL>>] :
                       n \in BucketNames, t \in ChunkTexts}, MaxRecords + 1) :
    InitRun(rs, 1)

SpecBuckets == InitBuckets /\ [][Next]_vars

\* the hash of the name of record k
hashOfRow(k) == fnv1a(rowStart(k), Len(rows[k].name), fnv1aOffset64)

\* the statistics of the records of station n that start at one of the
\* offsets P
statsAt(P, n) ==
  LET val == [k \in 1..Len(rows) |-> scaledValue(rows[k].text)]
      K   == {k \in 1..Len(rows) : rowStart(k) \in P /\ rows[k].name = n}
  IN  [min |-> SetMin({val[k] : k \in K}), max |-> SetMax({val[k] : k \in K}),
       sum |-> sumOver(val, K), count |-> Cardinality(K)]

\* C15: two names whose hashes differ and fall into the same bucket keep
\* separate entries: a bucket never holds two entries of one hash, every
\* entry lies in the bucket of its key, getMeasurement returns an entry only
\* for the hash stored in it (nil for a name not seen, though its bucket is
\* occupied), and each entry holds the statistics of its own name alone.
C15_BucketCollisionsKeptApart ==
  LET hash == [k \in 1..Len(rows) |-> hashOfRow(k)]
      at   == [k \in 1..Len(rows) |-> rowStart(k)]
  IN  \A i \in launched :
        LET w == workers[i]
            P == {w.parsed[k] : k \in 1..Len(w.parsed)}
            seen == {rows[k].name : k \in {j \in 1..Len(rows) : at[j] \in P}}
        IN  /\ \A c \in DOMAIN w.buckets :
                 /\ \A j, k \in 1..Len(w.buckets[c]) :
                      j # k => w.buckets[c][j].key # w.buckets[c][k].key
                 /\ \A j \in 1..Len(w.buckets[c]) :
                      /\ bucketOf(w.buckets[c][j].key) = c
                      /\ getMeasurement(w, w.buckets[c][j].key)
                           = w.buckets[c][j].mid
            /\ \A k \in 1..Len(rows) :
                 LET mid == getMeasurement(w, hash[k])
                 IN  IF rows[k].name \in seen
                       THEN /\ mid # 0 - 1
                            /\ w.ids[hash[k]] = rows[k].name
                            /\ w.measurements[mid + 1] = statsAt(P, rows[k].name)
                       ELSE mid = 0 - 1

\* C15 witness: a worker has finished three records, its bucket 3212 holds
\* the two entries of "a" and "Rq", and the record scanned last was found in
\* the second of them.
C15_Witness ==
  \E i \in launched :
    /\ workers[i].pc = "done"
    /\ Len(workers[i].parsed) = 3
    /\ 3212 \in DOMAIN workers[i].buckets
    /\ Len(workers[i].buckets[3212]) = 2
    /\ workers[i].buckets[3212][1].key # workers[i].buckets[3212][2].key
    /\ workers[i].measurements[workers[i].buckets[3212][2].mid + 1].count = 2
    /\ \E k \in 1..Len(rows) :
         /\ rowStart(k) = workers[i].parsed[3]
         /\ hashOfRow(k) = workers[i].buckets[3212][2].key


\* C16: after any number of records scanned by a worker, the keys of ids are
\* the hashes stored in the buckets, the mids of the entries are distinct and
\* are exactly the indices of measurements, and, the names of the buffer
\* having distinct hashes, the map processChunk builds has exactly one entry
\* per station name seen in the chunk.
C16_TableConsistent ==
  \A i \in launched :
    LET w  == workers[i]
        es == entryList(w.buckets, DOMAIN w.buckets)
        P  == {w.parsed[k] : k \in 1..Len(w.parsed)}
        seen == {rows[k].name : k \in {j \in 1..Len(rows) : rowStart(j) \in P}}
    IN  /\ DOMAIN w.ids = {es[k].key : k \in 1..Len(es)}
        /\ {es[k].mid : k \in 1..Len(es)} = 0..(Len(w.measurements) - 1)
        /\ Len(es) = Len(w.measurements)
        /\ \/ /\ DOMAIN chunkResult(w) = seen
              /\ Cardinality(seen) = Len(es)
              /\ w.pc \in {"signal", "done"} => results[i] = chunkResult(w)
           \/ ~distinctHashes

\* C16 witness: a worker has returned a map of two stations from a table of
\* two entries in two buckets.
C16_Witness ==
  \E i \in launched :
    /\ workers[i].pc = "done"
    /\ Cardinality(DOMAIN workers[i].buckets) = 2
    /\ Cardinality(DOMAIN workers[i].ids) = 2
    /\ Len(workers[i].measurements) = 2
    /\ Cardinality(DOMAIN results[i]) = 2


\* ---------------------------------------------------------------------------
\* Two names of one hash.  FNV-1a maps the unbounded set of names to 64 bits,
\* so names of equal hash exist, but none is short enough to be enumerated.
\* Here processChunk runs on one chunk with the hash loop's result replaced
\* by one value for every name: "a" and "b" stand for two names that collide.

\* the hash the names of the chunk are taken to share
sharedHash == <<1, 2, 3, 4, 5, 6, 7, 8>>

\* one iteration of the scan loop, the hash loop yielding sharedHash
scanRecordColliding(w) ==
  LET semi    == IndexByte(w.lo, w.hi, SEMI)
      semiPos == IF semi = 0 - 1 THEN 0 ELSE semi
      idHash  == sharedHash
      idData  == Slice(w.lo, w.lo + semiPos)
      lo1     == w.lo + semiPos + 1
  IN  IF w.hi - lo1 < 8
        THEN [w EXCEPT !.pc = "panic"]
        ELSE LET p    == inlineParseNumberLE(Uint64(lo1))
                 temp == p[1]
                 size == p[2]
             IN  IF lo1 + size + 1 > w.hi
                   THEN [w EXCEPT !.pc = "panic"]
                   ELSE [foldRecord(w, idHash, idData, temp) EXCEPT
                           !.lo = lo1 + size + 1,
                           !.parsed = Append(w.parsed, w.lo)]

\* the record that follows the chunk in the buffer: "a;1.5\n"
nextChunkRow ==
  [name |-> <<97>>, sep |-> <<SEMI>>, text |-> <<49, DOT, 53>>, term |-> <<NL>>]

\* one goroutine on a chunk of 1..MaxRecords+1 records, the first chunk of a
\* buffer that goes on with one more record
InitColliding ==
  /\ \E rs \in RowSeqs(RowSet(ChunkTexts), MaxRecords + 1) :
       /\ rows = Append(rs, nextChunkRow)
       /\ data = bufferOf(Append(rs, nextChunkRow))
       /\ chunks = <<Len(bufferOf(rs))>>
       /\ workers = (0 :> newWorker(0, Len(bufferOf(rs)) + chunkOverlap))
  /\ nChunks = 1
  /\ pc = "chunk"
  /\ lastRowOffset = 0
  /\ offset = 0
  /\ start = 0
  /\ next = 1
  /\ wg = 1
  /\ results = (0 :> EmptyMap)
  /\ writers = (0 :> <<>>)
  /\ measurements = EmptyMap
  /\ mergeIdx = 0
  /\ visited = {}
  /\ ret = EmptyMap
  /\ num = EmptyMap

\* the goroutine: one iteration of the scan loop
ScanColliding ==
  /\ workers[0].pc = "scan"
  /\ scanMore(workers[0])
  /\ workers' = [workers EXCEPT ![0] = scanRecordColliding(workers[0])]
  /\ UNCHANGED <<data, nChunks, rows, pc, lastRowOffset, offset, chunks, start,
                 next, wg, results, writers, measurements, mergeIdx, visited,
                 ret, num>>

\* the goroutine: the scan loop has ended, processChunk returns its map
FinishColliding ==
  /\ workers[0].pc = "scan"
  /\ ~scanMore(workers[0])
  /\ results' = [results EXCEPT ![0] = chunkResult(workers[0])]
  /\ writers' = [writers EXCEPT ![0] = Append(@, 0)]
  /\ workers' = [workers EXCEPT ![0].pc = "signal"]
  /\ UNCHANGED <<data, nChunks, rows, pc, lastRowOffset, offset, chunks, start,
                 next, wg, measurements, mergeIdx, visited, ret, num>>

NextColliding == ScanColliding \/ FinishColliding

SpecColliding == InitColliding /\ [][NextColliding]_vars

\* the statistics of the first k records of the buffer, whatever their names
statsOfFirst(k) ==
  LET val == [j \in 1..k |-> scaledValue(rows[j].text)]
  IN  [min |-> SetMin({val[j] : j \in 1..k}), max |-> SetMax({val[j] : j \in 1..k}),
       sum |-> sumOver(val, 1..k), count |-> k]

\* C17: when the names of a chunk have one 64-bit hash, processChunk folds
\* their records into one entry, reports it under the name that occurred
\* first, and leaves the other name out; the entry counts every record, and
\* when both names occur the map differs from the by-name statistics.
C17_CollidingNamesShareEntry ==
  LET w == workers[0]
      k == Len(w.parsed)
      names == {rows[j].name : j \in 1..k}
      byName == [n \in names |-> statsAt({rowStart(j) : j \in 1..k}, n)]
  IN  /\ k >= 1 =>
             /\ Len(w.measurements) = 1
             /\ w.measurements[1] = statsOfFirst(k)
             /\ DOMAIN chunkResult(w) = {rows[1].name}
      /\ w.pc = "signal" =>
             /\ k = Len(rows) - 1
             /\ DOMAIN results[0] = {rows[1].name}
             /\ results[0][rows[1].name] = statsOfFirst(k)
             /\ (Cardinality(names) = 2 => results[0] # byName)

\* C17 witness: a chunk of "b" and then "a" records has been returned as the
\* single station "b" holding all the records.
C17_Witness ==
  /\ workers[0].pc = "signal"
  /\ Len(workers[0].parsed) >= 3
  /\ rows[1].name = <<98>>
  /\ \E j \in 2..(Len(rows) - 1) : rows[j].name = <<97>>
  /\ DOMAIN results[0] = {<<98>>}
  /\ results[0][<<98>>].count = Len(rows) - 1


\* ---------------------------------------------------------------------------
\* Fair scheduling: the Go scheduler lets the main flow of process and every
\* goroutine it started take a step whenever it stays able to.

\* a step of the main flow of process
mainStep ==
  Start \/ Partition \/ Prepare \/ Launch \/ LastRow \/ Wait \/ Merge \/ Return

\* a step of goroutine i
workerStep(i) ==
  /\ i \in DOMAIN workers
  /\ (ScanRecord(i) \/ FinishChunk(i) \/ Done(i))

\* goroutine i can take a step: workerStep(i) is enabled exactly when it is
\* scanning, which ends in a further record, a panic or the return of the
\* map, or about to signal
workerEnabled(i) ==
  /\ i \in DOMAIN workers
  /\ running
  /\ workers[i].pc \in {"scan", "signal"}

\* goroutine i has taken a step: between its launch and its end only its own
\* steps change workers[i]
workerMoved(i) ==
  /\ workerEnabled(i)
  /\ workers'[i] # workers[i]

\* weak fairness of the main flow, and of every goroutine: WF_vars(workerStep(i))
\* written out, with workerEnabled(i) for ENABLED <<workerStep(i)>>_vars and
\* workerMoved(i) for <<workerStep(i)>>_vars
SpecFair ==
  /\ Init
  /\ [][Next]_vars
  /\ WF_vars(mainStep)
  /\ \A i \in 0..(MaxWorkers - 1) :
       []<>(~workerEnabled(i)) \/ []<><<workerMoved(i)>>_vars

\* an iteration of a scan loop leaves its view strictly shorter
scanShortens ==
  \A i \in DOMAIN workers \cap DOMAIN workers' :
    (workers[i].pc = "scan" /\ workers'[i] # workers[i]) =>
      /\ workers'[i].hi = workers[i].hi
      /\ workers'[i].pc = "scan" => workers'[i].lo > workers[i].lo
      /\ workers'[i].pc # "scan" => workers'[i].lo = workers[i].lo

\* the counter of the wait group goes down by one when a goroutine signals,
\* and a goroutine that has signalled takes no further step
signalsOnce ==
  /\ (wg' # wg /\ pc # "prepare") =>
       /\ wg' = wg - 1
       /\ Cardinality({i \in DOMAIN workers :
                         workers[i].pc = "signal" /\ workers'[i].pc = "done"}) = 1
  /\ \A i \in DOMAIN workers \cap DOMAIN workers' :
       workers[i].pc = "done" => workers'[i] = workers[i]
  /\ partitioned' =>
       wg' = Cardinality({i \in DOMAIN workers' : workers'[i].pc # "done"})

\* an iteration of the partitioning loop adds one boundary, and there are
\* never more than N of them
partitionBounded ==
  /\ (pc = "partition" /\ pc' = "partition") => Len(chunks') = Len(chunks) + 1
  /\ (pc = "partition" /\ Len(rows) >= 2) => Len(chunks') <= nChunks

\* C18: under fair scheduling process returns for every well-formed buffer
\* with at least one byte per worker: the partitioning loop ends within N
\* iterations, every iteration of a scan loop shortens its view, every
\* goroutine signals completion exactly once, and the merge completes.
C18_ProcessReturns ==
  /\ (Len(data) >= nChunks) ~> (pc = "done")
  /\ [][scanShortens /\ signalsOnce /\ partitionBounded]_vars

\* C18 witness: a run of three goroutines has returned, all of them have
\* signalled and two of them have scanned a record.
C18_Witness ==
  /\ pc = "done"
  /\ launched = {0, 1, 2}
  /\ wg = 0
  /\ \A i \in launched : workers[i].pc = "done"
  /\ Cardinality({i \in launched : workers[i].parsed # <<>>}) = 2

====
